---- MODULE Spec2Model ----
(***************************************************************************)
(* Model of ContiguousMemoryAllocation.py: class Memory, a list of Block   *)
(* objects covering the addresses 0 .. MAX_MEMORY-1, driven one command at *)
(* a time by the allocator prompt of main() (RQ / RL / C).                 *)
(*                                                                         *)
(* A Block is the record [start, end, id]; its size is fixed at            *)
(* construction as end - start + 1 and the code never reassigns start or   *)
(* end, so the size is computed from them.  A block is a hole exactly when *)
(* its id is the string "unused".                                          *)
(*                                                                         *)
(* Model of Scheduler.py: class Scheduler, built from a schedule file, and *)
(* its method printRoundRobinScheduling.  Task objects live in a heap and  *)
(* the task lists hold references to them, as Python lists do.             *)
(***************************************************************************)
EXTENDS Integers, Sequences, FiniteSets, TLC

\* Largest MAX given to Memory(MAX) in the model.
MaxMem == 4

\* Process names the prompt may be given.  main() passes the second word of
\* an RQ / RL line unfiltered, so the word "unused" is one of them.
ProcessNames == {"P1", "P2", "unused"}

\* Sizes of an RQ request (size > 0); MaxMem + 1 never fits.
RequestSizes == 1..(MaxMem + 1)

\* Most lines of a schedule file, and the largest CPU burst, priority and
\* quantum in the model.
MaxTasks == 3

MaxBurst == 3

MaxPriority == 2

MaxQuantum == 2

VARIABLES
    MAX_MEMORY,      \* the argument of Memory(MAX_MEMORY)
    memory,          \* self.memory: sequence of Blocks
    unique_ids,      \* self.unique_ids: set of process names
    op,              \* the method called last
    process,         \* its process argument ("" when it has none)
    size,            \* its size argument (0 when it has none)
    result,          \* what the call reported: "ok" or the error it printed
    old_memory,      \* self.memory when the last call started
    old_unique_ids,  \* self.unique_ids when the last call started
    earlier,         \* the call before the last one, when the last call is
                     \* a release right after a successful request of the same
                     \* process, or a compaction right after a successful
                     \* release: its name and the state it started from
    script,          \* the calls of a test function, << >> at the prompt
    step,            \* how many calls of the script have been made
    pc,              \* "prompt" between calls, else the statement of the
                     \* running method that was executed last
    pending,         \* new_blocks of a running request, not yet in memory
    file,            \* what read_txt(self.file) returns: the tuples
                     \* (name, priority, cpu_burst) of the schedule file
    heap,            \* the Task objects made so far; a reference to one is
                     \* its index
    tasks_by_fcfs,   \* self.tasks_by_fcfs: sequence of references
    tasks_by_priority, \* self.tasks_by_priority: sequence of references
    quantum,         \* the arguments of printRoundRobinScheduling
    priority,
    tasks,           \* its locals tasks, num_complete and clock
    num_complete,
    clock,
    task_index,      \* its local i
    rr_pc,           \* where printRoundRobinScheduling is: "call" before it
                     \* is called, "while" at the loop test, "body" in the
                     \* loop body, "return" after the loop, "ValueError"
                     \* when it raised
    printed          \* what it printed: the clock at the start and, for
                     \* every slice, the task (with its position in tasks)
                     \* and the clock after it

memoryVars == <<MAX_MEMORY, memory, unique_ids, op, process, size, result,
                old_memory, old_unique_ids, earlier, script, step, pc, pending>>

schedulerVars == <<file, heap, tasks_by_fcfs, tasks_by_priority, quantum,
                   priority, tasks, num_complete, clock, task_index, rr_pc,
                   printed>>

vars == <<memoryVars, schedulerVars>>

\* ContiguousMemoryAllocation.py makes no Scheduler.
NoScheduler ==
    /\ file = << >>
    /\ heap = << >>
    /\ tasks_by_fcfs = << >>
    /\ tasks_by_priority = << >>
    /\ quantum = 0
    /\ priority = FALSE
    /\ tasks = << >>
    /\ num_complete = 0
    /\ clock = 0
    /\ task_index = 0
    /\ rr_pc = ""
    /\ printed = << >>

----------------------------------------------------------------------------
\* class Block

Block(start_address, end_address, ID) ==
    [start |-> start_address, end |-> end_address, id |-> ID]

BlockSize(block) == block.end - block.start + 1

----------------------------------------------------------------------------
\* list.sort(key=..., reverse=...): a stable sort.  With reverse=True the
\* order of the keys is descending and elements with equal keys still keep
\* their original relative order.

RECURSIVE InsertIndex(_, _, _)
InsertIndex(sorted, i, keys) ==
    IF sorted = << >> THEN <<i>>
    ELSE IF keys[Head(sorted)] <= keys[i]
         THEN <<Head(sorted)>> \o InsertIndex(Tail(sorted), i, keys)
         ELSE <<i>> \o sorted

RECURSIVE SortedIndices(_, _)
SortedIndices(n, keys) ==
    IF n = 0 THEN << >> ELSE InsertIndex(SortedIndices(n - 1, keys), n, keys)

Reversed(seq) == [j \in 1..Len(seq) |-> seq[Len(seq) + 1 - j]]

\* A reverse sort that sorts ascending and then reverses the list: elements
\* with equal keys come out in reversed order.
ListSortReversingTies(seq, keys, reverse) ==
    LET order  == SortedIndices(Len(seq), keys)
        sorted == [j \in 1..Len(seq) |-> seq[order[j]]]
    IN  IF reverse THEN Reversed(sorted) ELSE sorted

ListSort(seq, keys, reverse) ==
    LET k     == [i \in 1..Len(seq) |-> IF reverse THEN 0 - keys[i] ELSE keys[i]]
        order == SortedIndices(Len(seq), k)
    IN  [j \in 1..Len(seq) |-> seq[order[j]]]

\* A sort by start address that leaves the list as it is.
NoSortByStart(mem) == mem

_sort_by_starting_address_increasing(mem) ==
    ListSort(mem, [i \in 1..Len(mem) |-> mem[i].start], FALSE)

----------------------------------------------------------------------------
\* list helpers

Indices(seq) == [i \in 1..Len(seq) |-> i]

\* list.pop(index), as the remaining list (index counted from 1)
Pop(seq, index) == SubSeq(seq, 1, index - 1) \o SubSeq(seq, index + 1, Len(seq))

RECURSIVE SumSizes(_)
SumSizes(blocks) ==
    IF blocks = << >> THEN 0 ELSE BlockSize(Head(blocks)) + SumSizes(Tail(blocks))

----------------------------------------------------------------------------
\* class Memory

\* A duplicate check that never finds the process.
NeverAlreadyAllocated(ids, proc) == FALSE

_check_process_already_allocated(ids, proc) == proc \in ids

\* [index for index, item in enumerate(self.memory)
\*        if item.id == "unused" and size <= item.size]
\* The (index, item) tuples of the code are kept as indices into mem.
_get_free_blocks_for_size_with_index(mem, sz) ==
    SelectSeq(Indices(mem),
              LAMBDA i : mem[i].id = "unused" /\ sz <= BlockSize(mem[i]))

\* The hole is popped from memory, the new blocks are appended, then the
\* list is sorted by start address.
ReplaceHole(mem, index, proc, sz) ==
    LET hole       == mem[index]
        new_block  == Block(hole.start, hole.start + sz - 1, proc)
        new_blocks == IF sz < BlockSize(hole)
                      THEN <<new_block, Block(new_block.end + 1, hole.end, "unused")>>
                      ELSE <<new_block>>
    IN  _sort_by_starting_address_increasing(Pop(mem, index) \o new_blocks)

\* A first fit that takes the last sufficient hole.
LastFitIndex(mem, sz) ==
    LET free_indices == _get_free_blocks_for_size_with_index(mem, sz)
    IN  free_indices[Len(free_indices)]

FirstFitIndex(mem, sz) ==
    LET free_indices == _get_free_blocks_for_size_with_index(mem, sz)
    IN  free_indices[1]

\* A best fit that takes the last of the smallest sufficient holes.
BestFitIndexLastTie(mem, sz) ==
    LET free_blocks == _get_free_blocks_for_size_with_index(mem, sz)
        keys        == [j \in 1..Len(free_blocks) |-> 0 - BlockSize(mem[free_blocks[j]])]
        sorted      == ListSort(free_blocks, keys, FALSE)
    IN  sorted[Len(sorted)]

\* A best fit that does not sort the sufficient holes by size.
BestFitIndexUnsorted(mem, sz) ==
    LET free_blocks == _get_free_blocks_for_size_with_index(mem, sz)
    IN  free_blocks[1]

BestFitIndex(mem, sz) ==
    LET free_blocks == _get_free_blocks_for_size_with_index(mem, sz)
        keys        == [j \in 1..Len(free_blocks) |-> BlockSize(mem[free_blocks[j]])]
        sorted      == ListSort(free_blocks, keys, FALSE)
    IN  sorted[1]

WorstFitIndex(mem, sz) ==
    LET free_blocks == _get_free_blocks_for_size_with_index(mem, sz)
        keys        == [j \in 1..Len(free_blocks) |-> BlockSize(mem[free_blocks[j]])]
        sorted      == ListSort(free_blocks, keys, TRUE)
    IN  sorted[1]

NoEarlier == [op |-> "", memory |-> << >>, unique_ids |-> {}]

\* What every call records about itself.
Called(name, proc, sz) ==
    /\ op' = name
    /\ process' = proc
    /\ size' = sz
    /\ old_memory' = memory
    /\ old_unique_ids' = unique_ids
    /\ earlier' =
          IF \/ /\ name = "release"
                /\ op \in {"addMemoryFirstFit", "addMemoryBestFit", "addMemoryWorstFit"}
                /\ result = "ok"
                /\ process = proc
             \/ /\ name = "compactAllHoles"
                /\ op = "release"
                /\ result = "ok"
          THEN [op |-> op, memory |-> old_memory, unique_ids |-> old_unique_ids]
          ELSE NoEarlier
    /\ UNCHANGED MAX_MEMORY
    /\ UNCHANGED schedulerVars

Fails(error) ==
    /\ result' = error
    /\ UNCHANGED <<memory, unique_ids>>

AddMemory(name, proc, sz, index) ==
    /\ Called(name, proc, sz)
    /\ IF _check_process_already_allocated(unique_ids, proc)
       THEN Fails("DuplicateProcess")
       ELSE IF _get_free_blocks_for_size_with_index(memory, sz) = << >>
       THEN Fails("InsufficientMemory")
       ELSE /\ memory' = ReplaceHole(memory, index, proc, sz)
            /\ unique_ids' = unique_ids \cup {proc}
            /\ result' = "ok"

addMemoryFirstFit(proc, sz) ==
    AddMemory("addMemoryFirstFit", proc, sz, FirstFitIndex(memory, sz))

addMemoryBestFit(proc, sz) ==
    AddMemory("addMemoryBestFit", proc, sz, BestFitIndex(memory, sz))

addMemoryWorstFit(proc, sz) ==
    AddMemory("addMemoryWorstFit", proc, sz, WorstFitIndex(memory, sz))

\* The loop of _combine_adjacent_holes over free_blocks (indices into mem):
\* i is the loop variable, to_merge the current run, new_blocks the merged
\* holes so far.  Returns new_blocks after the final flush of to_merge.
RECURSIVE MergeLoop(_, _, _, _, _)
MergeLoop(mem, free_blocks, i, to_merge, new_blocks) ==
    IF i <= Len(free_blocks)
    THEN IF to_merge = << >> \/ to_merge[Len(to_merge)] = free_blocks[i] - 1
         THEN MergeLoop(mem, free_blocks, i + 1,
                        Append(to_merge, free_blocks[i]), new_blocks)
         ELSE MergeLoop(mem, free_blocks, i, << >>,
                        Append(new_blocks,
                               Block(mem[to_merge[1]].start,
                                     mem[to_merge[Len(to_merge)]].end, "unused")))
    ELSE IF to_merge # << >>
         THEN Append(new_blocks,
                     Block(mem[to_merge[1]].start,
                           mem[to_merge[Len(to_merge)]].end, "unused"))
         ELSE new_blocks

\* A coalescing that leaves the list as it is.
NoCombine(mem) == mem

_combine_adjacent_holes(mem) ==
    LET free_blocks == SelectSeq(Indices(mem), LAMBDA i : mem[i].id = "unused")
        new_blocks  == MergeLoop(mem, free_blocks, 1, << >>, << >>)
        new_memory  == SelectSeq(mem, LAMBDA item : item.id # "unused")
    IN  _sort_by_starting_address_increasing(new_memory \o new_blocks)

\* index = 0, then the index of the first block whose id is the process
\* (counted from 1 here).
ReleaseIndex(mem, proc) ==
    IF \E i \in 1..Len(mem) : mem[i].id = proc
    THEN CHOOSE i \in 1..Len(mem) :
             /\ mem[i].id = proc
             /\ \A j \in 1..(i - 1) : mem[j].id # proc
    ELSE 1

release(proc) ==
    /\ Called("release", proc, 0)
    /\ IF proc \notin unique_ids
       THEN Fails("ProcessNotFound")
       ELSE LET index == ReleaseIndex(memory, proc)
                freed == [memory EXCEPT ![index].id = "unused"]
            IN  /\ memory' = _combine_adjacent_holes(freed)
                /\ unique_ids' = unique_ids \ {proc}
                /\ result' = "ok"

\* A relocation loop that walks the allocated blocks from the last to the
\* first.
RECURSIVE RelocateLastFirst(_, _)
RelocateLastFirst(allocated_memory, start_address) ==
    IF allocated_memory = << >> THEN << >>
    ELSE LET am == allocated_memory[Len(allocated_memory)]
         IN  <<Block(start_address, start_address + BlockSize(am) - 1, am.id)>>
             \o RelocateLastFirst(SubSeq(allocated_memory, 1, Len(allocated_memory) - 1),
                                  start_address + BlockSize(am))

\* A relocation loop whose blocks end one address too far.
RECURSIVE RelocateOffByOne(_, _)
RelocateOffByOne(allocated_memory, start_address) ==
    IF allocated_memory = << >> THEN << >>
    ELSE LET am == Head(allocated_memory)
         IN  <<Block(start_address, start_address + BlockSize(am), am.id)>>
             \o RelocateOffByOne(Tail(allocated_memory), start_address + BlockSize(am))

\* The relocation loop of compactAllHoles: start_address runs from 0.
RECURSIVE Relocate(_, _)
Relocate(allocated_memory, start_address) ==
    IF allocated_memory = << >> THEN << >>
    ELSE LET am == Head(allocated_memory)
         IN  <<Block(start_address, start_address + BlockSize(am) - 1, am.id)>>
             \o Relocate(Tail(allocated_memory), start_address + BlockSize(am))

\* A compaction without the early return for fewer than two holes.
compactWithoutGuard ==
    /\ Called("compactAllHoles", "", 0)
    /\ result' = "ok"
    /\ UNCHANGED unique_ids
    /\ LET free_blocks      == SelectSeq(memory, LAMBDA item : item.id = "unused")
           allocated_memory == SelectSeq(memory, LAMBDA item : item.id # "unused")
           start_address    == SumSizes(allocated_memory)
       IN  memory' = Append(Relocate(allocated_memory, 0),
                            Block(start_address,
                                  start_address + SumSizes(free_blocks) - 1,
                                  "unused"))

\* A compaction that merges neighbouring holes and moves nothing.
compactMergingOnly ==
    /\ Called("compactAllHoles", "", 0)
    /\ result' = "ok"
    /\ UNCHANGED unique_ids
    /\ memory' = _combine_adjacent_holes(memory)

compactAllHoles ==
    /\ Called("compactAllHoles", "", 0)
    /\ result' = "ok"
    /\ UNCHANGED unique_ids
    /\ LET free_blocks      == SelectSeq(memory, LAMBDA item : item.id = "unused")
           allocated_memory == SelectSeq(memory, LAMBDA item : item.id # "unused")
           start_address    == SumSizes(allocated_memory)
       IN  IF Len(free_blocks) < 2
           THEN UNCHANGED memory
           ELSE memory' = Append(Relocate(allocated_memory, 0),
                                 Block(start_address,
                                       start_address + SumSizes(free_blocks) - 1,
                                       "unused"))

----------------------------------------------------------------------------
\* Memory(MAX) followed by the commands of the prompt, one per step.

Init ==
    /\ MAX_MEMORY \in 1..MaxMem
    /\ memory = <<Block(0, MAX_MEMORY - 1, "unused")>>
    /\ unique_ids = {}
    /\ op = "__init__"
    /\ process = ""
    /\ size = 0
    /\ result = "ok"
    /\ old_memory = memory
    /\ old_unique_ids = unique_ids
    /\ earlier = NoEarlier
    /\ script = << >>
    /\ step = 0
    /\ pc = "prompt"
    /\ pending = << >>
    /\ NoScheduler

\* A command of the prompt runs its method to the end; no script is run.
AtPrompt ==
    /\ pc = "prompt"
    /\ UNCHANGED <<script, step, pc, pending>>

RequestFirstFit ==
    /\ AtPrompt
    /\ \E proc \in ProcessNames, sz \in RequestSizes : addMemoryFirstFit(proc, sz)

RequestBestFit ==
    /\ AtPrompt
    /\ \E proc \in ProcessNames, sz \in RequestSizes : addMemoryBestFit(proc, sz)

RequestWorstFit ==
    /\ AtPrompt
    /\ \E proc \in ProcessNames, sz \in RequestSizes : addMemoryWorstFit(proc, sz)

Release ==
    /\ AtPrompt
    /\ \E proc \in ProcessNames : release(proc)

Compact ==
    /\ AtPrompt
    /\ compactAllHoles

Next ==
    \/ RequestFirstFit
    \/ RequestBestFit
    \/ RequestWorstFit
    \/ Release
    \/ Compact

Spec == Init /\ [][Next]_vars

----------------------------------------------------------------------------
\* testing(): Memory(10000), five first-fit requests, two releases, a
\* request of p9 and its release.  The script is run as written and with
\* other released processes, p9 sizes and p9 policies.

TestingMax == 10000

Request(name, proc, sz) == [op |-> name, process |-> proc, size |-> sz]

Testing(released1, released2, sz, approach) ==
    << Request("addMemoryFirstFit", "P1", 500),
       Request("addMemoryFirstFit", "P2", 400),
       Request("addMemoryFirstFit", "P3", 300),
       Request("addMemoryFirstFit", "P4", 200),
       Request("addMemoryFirstFit", "P5", 100),
       Request("release", released1, 0),
       Request("release", released2, 0),
       Request(approach, "p9", sz),
       Request("release", "p9", 0) >>

TestingScripts ==
    {Testing(r1, r2, sz, approach) :
        r1 \in {"P2", "P3", "P4"}, r2 \in {"P2", "P3", "P4"},
        sz \in {50, 200, 400},
        approach \in {"addMemoryFirstFit", "addMemoryBestFit", "addMemoryWorstFit"}}

InitTesting ==
    /\ MAX_MEMORY = TestingMax
    /\ memory = <<Block(0, MAX_MEMORY - 1, "unused")>>
    /\ unique_ids = {}
    /\ op = "__init__"
    /\ process = ""
    /\ size = 0
    /\ result = "ok"
    /\ old_memory = memory
    /\ old_unique_ids = unique_ids
    /\ earlier = NoEarlier
    /\ script \in TestingScripts
    /\ step = 0
    /\ pc = "prompt"
    /\ pending = << >>
    /\ NoScheduler

\* The next line of the script is a call of the method called name.
NextLine(name) ==
    /\ step < Len(script)
    /\ script[step + 1].op = name
    /\ step' = step + 1
    /\ UNCHANGED <<script, pc, pending>>

TestingFirstFit ==
    /\ NextLine("addMemoryFirstFit")
    /\ addMemoryFirstFit(script[step + 1].process, script[step + 1].size)

TestingBestFit ==
    /\ NextLine("addMemoryBestFit")
    /\ addMemoryBestFit(script[step + 1].process, script[step + 1].size)

TestingWorstFit ==
    /\ NextLine("addMemoryWorstFit")
    /\ addMemoryWorstFit(script[step + 1].process, script[step + 1].size)

TestingRelease ==
    /\ NextLine("release")
    /\ release(script[step + 1].process)

NextTesting ==
    \/ TestingFirstFit
    \/ TestingBestFit
    \/ TestingWorstFit
    \/ TestingRelease

SpecTesting == InitTesting /\ [][NextTesting]_vars

----------------------------------------------------------------------------
\* The methods run statement by statement: every step is one assignment to
\* self.memory or self.unique_ids, and every state in between is one that a
\* reader of the Memory object could see.  compactAllHoles assigns
\* self.memory once and stays a single step.

\* A later statement of the running method.
Running ==
    /\ UNCHANGED <<MAX_MEMORY, op, process, size, old_memory, old_unique_ids,
                   earlier, script, step>>
    /\ UNCHANGED schedulerVars

\* new_blocks of a request (lines 85-88)
NewBlocks(hole, proc, sz) ==
    LET new_block == Block(hole.start, hole.start + sz - 1, proc)
    IN  IF sz < BlockSize(hole)
        THEN <<new_block, Block(new_block.end + 1, hole.end, "unused")>>
        ELSE <<new_block>>

\* The checks of a request and self.memory.pop(index)
PopHole(name, proc, sz, index) ==
    /\ pc = "prompt"
    /\ Called(name, proc, sz)
    /\ UNCHANGED <<script, step>>
    /\ IF _check_process_already_allocated(unique_ids, proc)
       THEN Fails("DuplicateProcess") /\ UNCHANGED <<pc, pending>>
       ELSE IF _get_free_blocks_for_size_with_index(memory, sz) = << >>
       THEN Fails("InsufficientMemory") /\ UNCHANGED <<pc, pending>>
       ELSE /\ memory' = Pop(memory, index)
            /\ pending' = NewBlocks(memory[index], proc, sz)
            /\ pc' = "popped"
            /\ result' = "running"
            /\ UNCHANGED unique_ids

PopFirstFit ==
    \E proc \in ProcessNames, sz \in RequestSizes :
        PopHole("addMemoryFirstFit", proc, sz, FirstFitIndex(memory, sz))

PopBestFit ==
    \E proc \in ProcessNames, sz \in RequestSizes :
        PopHole("addMemoryBestFit", proc, sz, BestFitIndex(memory, sz))

PopWorstFit ==
    \E proc \in ProcessNames, sz \in RequestSizes :
        PopHole("addMemoryWorstFit", proc, sz, WorstFitIndex(memory, sz))

\* self.unique_ids.add(process)
AddId ==
    /\ pc = "popped"
    /\ unique_ids' = unique_ids \cup {process}
    /\ pc' = "added"
    /\ Running
    /\ UNCHANGED <<memory, pending, result>>

\* self.memory.extend(new_blocks)
Extend ==
    /\ pc = "added"
    /\ memory' = memory \o pending
    /\ pending' = << >>
    /\ pc' = "extended"
    /\ Running
    /\ UNCHANGED <<unique_ids, result>>

\* self.memory[index].id = "unused", after the check of release
Retag ==
    /\ pc = "prompt"
    /\ UNCHANGED <<script, step, pending>>
    /\ \E proc \in ProcessNames :
          /\ Called("release", proc, 0)
          /\ IF proc \notin unique_ids
             THEN Fails("ProcessNotFound") /\ UNCHANGED pc
             ELSE /\ memory' = [memory EXCEPT ![ReleaseIndex(memory, proc)].id = "unused"]
                  /\ pc' = "retagged"
                  /\ result' = "running"
                  /\ UNCHANGED unique_ids

\* self.unique_ids.remove(process)
RemoveId ==
    /\ pc = "retagged"
    /\ unique_ids' = unique_ids \ {process}
    /\ pc' = "removed"
    /\ Running
    /\ UNCHANGED <<memory, pending, result>>

\* self.memory = new_memory in _combine_adjacent_holes, before its sort
AssignCombined ==
    /\ pc = "removed"
    /\ LET free_blocks == SelectSeq(Indices(memory), LAMBDA i : memory[i].id = "unused")
           new_blocks  == MergeLoop(memory, free_blocks, 1, << >>, << >>)
           new_memory  == SelectSeq(memory, LAMBDA item : item.id # "unused")
       IN  memory' = new_memory \o new_blocks
    /\ pc' = "combined"
    /\ Running
    /\ UNCHANGED <<unique_ids, pending, result>>

\* self._sort_by_starting_address_increasing(), the last statement of a
\* request and of a release
SortMemory ==
    /\ pc \in {"extended", "combined"}
    /\ memory' = _sort_by_starting_address_increasing(memory)
    /\ pc' = "prompt"
    /\ result' = "ok"
    /\ Running
    /\ UNCHANGED <<unique_ids, pending>>

NextStatements ==
    \/ PopFirstFit
    \/ PopBestFit
    \/ PopWorstFit
    \/ AddId
    \/ Extend
    \/ Retag
    \/ RemoveId
    \/ AssignCombined
    \/ SortMemory
    \/ Compact

SpecStatements == Init /\ [][NextStatements]_vars

----------------------------------------------------------------------------
\* Scheduler.py

\* No Memory is made by Scheduler.py.
NoMemory ==
    /\ MAX_MEMORY = 0
    /\ memory = << >>
    /\ unique_ids = {}
    /\ op = ""
    /\ process = ""
    /\ size = 0
    /\ result = ""
    /\ old_memory = << >>
    /\ old_unique_ids = {}
    /\ earlier = NoEarlier
    /\ script = << >>
    /\ step = 0
    /\ pc = ""
    /\ pending = << >>

\* class Task
Task(name, task_priority, cpu_burst) ==
    [name |-> name, priority |-> task_priority, cpu_burst |-> cpu_burst]

\* The name on line k of a schedule file.
TaskName(k) == <<"T1", "T2", "T3", "T4", "T5">>[k]

\* read_txt: one tuple (name, int(priority), int(cpu_burst)) per line of
\* the file, in the order of the lines.
read_txt ==
    UNION {{[k \in 1..n |-> <<TaskName(k), p[k], b[k]>>] :
               p \in [1..n -> 1..MaxPriority], b \in [1..n -> 0..MaxBurst]} :
           n \in 0..MaxTasks}

\* The quantum of a call: any integer, of which those <= 0 are refused.
Quanta == (-1)..MaxQuantum

\* _initialize_fcfs_tasks: a Task object per line; tasks_by_fcfs refers to
\* them in the order of the lines.
_initialize_fcfs_tasks(lines) ==
    [heap |-> [k \in 1..Len(lines) |-> Task(lines[k][1], lines[k][2], lines[k][3])],
     tasks_by_fcfs |-> [k \in 1..Len(lines) |-> k]]

\* sorted(keys, reverse=True)
RECURSIVE SortedReverse(_)
SortedReverse(keys) ==
    IF keys = {}
    THEN << >>
    ELSE LET largest == CHOOSE key \in keys : \A other \in keys : other <= key
         IN  <<largest>> \o SortedReverse(keys \ {largest})

\* itertools.chain(*lists)
RECURSIVE Chain(_)
Chain(lists) ==
    IF lists = << >> THEN << >> ELSE Head(lists) \o Chain(Tail(lists))

\* _intialize_priority_tasks: the references of tasks_by_fcfs grouped by
\* priority, each group in the order of tasks_by_fcfs, the groups by
\* descending priority.
_intialize_priority_tasks(objects, fcfs) ==
    LET tasksByPriority(key) ==
            SelectSeq(fcfs, LAMBDA task : objects[task].priority = key)
        keys == SortedReverse({objects[fcfs[k]].priority : k \in 1..Len(fcfs)})
    IN  Chain([k \in 1..Len(keys) |-> tasksByPriority(keys[k])])

\* The tasks of a run share the Task objects of the scheduler's list.
AliasedTasks(objects, list) ==
    [heap |-> objects, tasks |-> list]

\* [Task(task.name, None, task.cpu_burst) for task in list]: new objects.
CopiedTasks(objects, list) ==
    [heap |-> objects \o [k \in 1..Len(list) |->
                            Task(objects[list[k]].name, "None",
                                 objects[list[k]].cpu_burst)],
     tasks |-> [k \in 1..Len(list) |-> Len(objects) + k]]

\* min(quantum, task.cpu_burst)
Min(a, b) == IF a < b THEN a ELSE b

\* Scheduler(file), and the arguments main() will pass.
InitScheduler ==
    /\ NoMemory
    /\ file \in read_txt
    /\ heap = _initialize_fcfs_tasks(file).heap
    /\ tasks_by_fcfs = _initialize_fcfs_tasks(file).tasks_by_fcfs
    /\ tasks_by_priority = _intialize_priority_tasks(heap, tasks_by_fcfs)
    /\ quantum \in Quanta
    /\ priority \in BOOLEAN
    /\ tasks = << >>
    /\ num_complete = 0
    /\ clock = 0
    /\ task_index = 0
    /\ rr_pc = "call"
    /\ printed = << >>

SchedulerKeeps ==
    UNCHANGED <<memoryVars, file, tasks_by_fcfs, tasks_by_priority, quantum,
                priority>>

\* printRoundRobinScheduling with quantum <= 0 (lines 87-88)
RaiseValueError ==
    /\ rr_pc = "call"
    /\ quantum <= 0
    /\ rr_pc' = "ValueError"
    /\ SchedulerKeeps
    /\ UNCHANGED <<heap, tasks, num_complete, clock, task_index, printed>>

\* printRoundRobinScheduling up to the loop (lines 87-98)
StartRoundRobin ==
    /\ rr_pc = "call"
    /\ ~(quantum <= 0)
    /\ LET list == IF priority THEN tasks_by_priority ELSE tasks_by_fcfs
           copied == CopiedTasks(heap, list)
       IN  /\ heap' = copied.heap
           /\ tasks' = copied.tasks
    /\ num_complete' = 0
    /\ clock' = 0
    /\ printed' = <<[task |-> 0, name |-> "", clock |-> 0]>>
    /\ task_index' = 0
    /\ rr_pc' = "while"
    /\ SchedulerKeeps

\* while num_complete < len(tasks) (line 99)
WhileTest ==
    /\ rr_pc = "while"
    /\ rr_pc' = IF num_complete < Len(tasks) THEN "body" ELSE "return"
    /\ SchedulerKeeps
    /\ UNCHANGED <<heap, tasks, num_complete, clock, task_index, printed>>

\* The loop body (lines 100-123)
LoopBody ==
    /\ rr_pc = "body"
    /\ LET task == tasks[task_index + 1]
           cpu_burst == heap[task].cpu_burst
           remaining == IF cpu_burst > quantum THEN cpu_burst - quantum ELSE 0
       IN  IF cpu_burst > 0
           THEN /\ clock' = clock + Min(quantum, cpu_burst)
                /\ printed' = Append(printed, [task |-> task_index + 1,
                                               name |-> heap[task].name,
                                               clock |-> clock'])
                /\ heap' = [heap EXCEPT ![task].cpu_burst = remaining]
                /\ num_complete' = IF remaining <= 0
                                   THEN num_complete + 1
                                   ELSE num_complete
           ELSE UNCHANGED <<clock, printed, heap, num_complete>>
    /\ task_index' = (task_index + 1) % Len(tasks)
    /\ rr_pc' = "while"
    /\ UNCHANGED tasks
    /\ SchedulerKeeps

NextScheduler ==
    \/ RaiseValueError
    \/ StartRoundRobin
    \/ WhileTest
    \/ LoopBody

SpecScheduler == InitScheduler /\ [][NextScheduler]_vars

\* The interpreter runs the next statement whenever there is one.
FairScheduler == SpecScheduler /\ WF_vars(NextScheduler)

----------------------------------------------------------------------------
\* Vocabulary of the properties: a Range is Free when its id is "unused",
\* Allocated otherwise; the owners of a Partition are the ids of its
\* Allocated Ranges.

IsFree(block) == block.id = "unused"

\* The call started from a Partition that no request named "unused" had
\* touched: no two adjacent Free Ranges, and "unused" not in the id set.
StartedCoalesced ==
    /\ "unused" \notin old_unique_ids
    /\ process # "unused"
    /\ \A i \in 1..(Len(old_memory) - 1) :
          ~(IsFree(old_memory[i]) /\ IsFree(old_memory[i + 1]))

IsAllocated(block) == block.id # "unused"

Owners(mem) == {mem[i].id : i \in {k \in 1..Len(mem) : IsAllocated(mem[k])}}

AllocateOps == {"addMemoryFirstFit", "addMemoryBestFit", "addMemoryWorstFit"}

\* Positions of the Free Ranges of mem that can hold sz addresses.
Sufficient(mem, sz) == {i \in 1..Len(mem) : IsFree(mem[i]) /\ BlockSize(mem[i]) >= sz}

Allocated(mem) == {mem[i] : i \in {k \in 1..Len(mem) : IsAllocated(mem[k])}}

FreeRanges(mem) == {mem[i] : i \in {k \in 1..Len(mem) : IsFree(mem[k])}}

\* C1: after every call the Range list is sorted by ascending start, begins
\* at address 0, ends at MAX-1, and each Range begins one past the end of
\* the Range before it.
C1_RangesCoverAddressSpace ==
    /\ Len(memory) >= 1
    /\ memory[1].start = 0
    /\ memory[Len(memory)].end = MAX_MEMORY - 1
    /\ \A i \in 1..(Len(memory) - 1) :
          /\ memory[i].start < memory[i + 1].start
          /\ memory[i].end + 1 = memory[i + 1].start

\* An allocation into a hole that is not the last block, so the appended
\* blocks had to be sorted back into place.
C1_Witness ==
    /\ op \in AllocateOps
    /\ result = "ok"
    /\ StartedCoalesced
    /\ Len(memory) >= 4
    /\ \E i \in 1..(Len(memory) - 2) : memory[i].id = process /\ IsAllocated(memory[i])

\* C2: after every call no two adjacent Ranges are both Free.
C2_NoAdjacentFreeRanges ==
    \A i \in 1..(Len(memory) - 1) : ~(IsFree(memory[i]) /\ IsFree(memory[i + 1]))

\* C3: after every call no two Allocated Ranges carry the same id.
C3_OwnersAreDistinct ==
    \A i, j \in 1..Len(memory) :
        (i < j /\ IsAllocated(memory[i]) /\ IsAllocated(memory[j]))
            => memory[i].id # memory[j].id

\* A request for a process that holds a Range was turned down while another
\* process holds a Range too.
C3_Witness ==
    /\ op \in AllocateOps
    /\ result = "DuplicateProcess"
    /\ process \in Owners(memory)
    /\ Cardinality(Owners(memory)) >= 2

\* C4: an allocate call reports DuplicateProcess when the process is an
\* owner, otherwise InsufficientMemory when no single Free Range is large
\* enough, otherwise it succeeds.
C4_AllocateOutcome ==
    op \in AllocateOps =>
        result = IF process \in Owners(old_memory) THEN "DuplicateProcess"
                 ELSE IF Sufficient(old_memory, size) = {} THEN "InsufficientMemory"
                 ELSE "ok"

\* C5: an allocate that reports an error, and a release of an id that is
\* not an owner, report their error and leave the Range list and the id set
\* as they were.
C5_FailedCallsChangeNothing ==
    /\ result # "ok" => (memory = old_memory /\ unique_ids = old_unique_ids)
    /\ (op = "release" /\ process \notin Owners(old_memory)) =>
          /\ result = "ProcessNotFound"
          /\ memory = old_memory
          /\ unique_ids = old_unique_ids

\* C6: a successful allocate replaces one sufficient Free Range R by an
\* Allocated Range of the process at R.start, followed by a Free Range for
\* the rest of R exactly when the request is smaller than R; all other
\* Ranges stay.
C6_AllocateSplitsChosenRange ==
    (op \in AllocateOps /\ result = "ok") =>
        \E i \in Sufficient(old_memory, size) :
            LET R      == old_memory[i]
                placed == Block(R.start, R.start + size - 1, process)
                rest   == IF size < BlockSize(R)
                          THEN <<Block(R.start + size, R.end, "unused")>>
                          ELSE << >>
            IN  /\ IsAllocated(placed)
                /\ memory = SubSeq(old_memory, 1, i - 1) \o <<placed>> \o rest
                            \o SubSeq(old_memory, i + 1, Len(old_memory))

\* The sufficient Free Range with the lowest start.
LowestSufficient(mem, sz) ==
    CHOOSE i \in Sufficient(mem, sz) : \A j \in Sufficient(mem, sz) : i <= j

\* The process was given the first sz addresses of Range R.
PlacedAt(R) ==
    \E j \in 1..Len(memory) : memory[j] = Block(R.start, R.start + size - 1, process)

\* C7: a successful first-fit allocation places the process at the start of
\* the sufficient Free Range with the lowest start address.
C7_FirstFitTakesLowestSufficient ==
    (op = "addMemoryFirstFit" /\ result = "ok") =>
        PlacedAt(old_memory[LowestSufficient(old_memory, size)])

\* First fit chose a hole although a smaller sufficient hole lay behind it.
C7_Witness ==
    /\ op = "addMemoryFirstFit"
    /\ result = "ok"
    /\ StartedCoalesced
    /\ \E i, j \in Sufficient(old_memory, size) :
          /\ i < j
          /\ BlockSize(old_memory[i]) > BlockSize(old_memory[j])
          /\ memory[i].id = process

\* C8: a successful best-fit allocation places the process in a sufficient
\* Free Range of minimum size, the one with the lowest start among those.
C8_BestFitTakesSmallestLowest ==
    (op = "addMemoryBestFit" /\ result = "ok") =>
        \E i \in Sufficient(old_memory, size) :
            /\ \A j \in Sufficient(old_memory, size) :
                  \/ BlockSize(old_memory[i]) < BlockSize(old_memory[j])
                  \/ (BlockSize(old_memory[i]) = BlockSize(old_memory[j]) /\ i <= j)
            /\ PlacedAt(old_memory[i])

\* Best fit chose between two sufficient holes of the same, smallest size.
C8_Witness ==
    /\ op = "addMemoryBestFit"
    /\ result = "ok"
    /\ StartedCoalesced
    /\ \E i, j \in Sufficient(old_memory, size) :
          /\ i < j
          /\ BlockSize(old_memory[i]) = BlockSize(old_memory[j])
          /\ \A k \in Sufficient(old_memory, size) :
                BlockSize(old_memory[i]) <= BlockSize(old_memory[k])

\* C9: a successful worst-fit allocation places the process in a Free Range
\* of maximum size, the one with the lowest start among those.
C9_WorstFitTakesLargestLowest ==
    (op = "addMemoryWorstFit" /\ result = "ok") =>
        \E i \in Sufficient(old_memory, size) :
            /\ \A j \in Sufficient(old_memory, size) :
                  \/ BlockSize(old_memory[i]) > BlockSize(old_memory[j])
                  \/ (BlockSize(old_memory[i]) = BlockSize(old_memory[j]) /\ i <= j)
            /\ PlacedAt(old_memory[i])

\* Worst fit chose between two holes of the same, largest size.
C9_Witness ==
    /\ op = "addMemoryWorstFit"
    /\ result = "ok"
    /\ StartedCoalesced
    /\ \E i, j \in Sufficient(old_memory, size) :
          /\ i < j
          /\ BlockSize(old_memory[i]) = BlockSize(old_memory[j])
          /\ \A k \in Sufficient(old_memory, size) :
                BlockSize(old_memory[i]) >= BlockSize(old_memory[k])

\* C10: after a successful release of a process that owned [a, b] the
\* process is no owner, the other Allocated Ranges are as before, and the
\* Free Ranges are as before except that the Free neighbours of [a, b] and
\* [a, b] itself are one Free Range, from the start of the Free Range just
\* before it (or a) to the end of the Free Range just after it (or b).
C10_ReleaseMergesWithFreeNeighbours ==
    (op = "release" /\ result = "ok" /\ process \in Owners(old_memory)) =>
        \A i \in 1..Len(old_memory) :
            old_memory[i].id = process =>
                LET own     == old_memory[i]
                    before  == IF i > 1 /\ IsFree(old_memory[i - 1])
                               THEN {old_memory[i - 1]} ELSE {}
                    after   == IF i < Len(old_memory) /\ IsFree(old_memory[i + 1])
                               THEN {old_memory[i + 1]} ELSE {}
                    a       == IF before = {} THEN own.start ELSE old_memory[i - 1].start
                    b       == IF after = {} THEN own.end ELSE old_memory[i + 1].end
                IN  /\ process \notin Owners(memory)
                    /\ Allocated(memory) = Allocated(old_memory) \ {own}
                    /\ FreeRanges(memory) =
                          ((FreeRanges(old_memory) \ before) \ after)
                              \cup {Block(a, b, "unused")}

----------------------------------------------------------------------------
\* Sizes and counts used by the properties of release and compaction.

RECURSIVE SizeOfAll(_)
SizeOfAll(blocks) ==
    IF blocks = {} THEN 0
    ELSE LET b == CHOOSE x \in blocks : TRUE
         IN  BlockSize(b) + SizeOfAll(blocks \ {b})

TotalFree(mem) == SizeOfAll(FreeRanges(mem))

TotalAllocated(mem) == SizeOfAll(Allocated(mem))

Holes(mem) == {i \in 1..Len(mem) : IsFree(mem[i])}

NoAdjacentFree(mem) ==
    \A i \in 1..(Len(mem) - 1) : ~(IsFree(mem[i]) /\ IsFree(mem[i + 1]))

\* Every Free Range of mem is its last Range.
HolesLast(mem) == \A i \in 1..(Len(mem) - 1) : IsAllocated(mem[i])

\* C11: a compaction of a Partition with at least two Free Ranges lists the
\* Allocated Ranges in their previous order, the first at address 0 and each
\* right after the one before, with owner and size kept, followed by one
\* Free Range that ends at MAX-1 and has the size of all previous Free
\* Ranges together.
C11_CompactRelocatesInOrder ==
    (op = "compactAllHoles" /\ Cardinality(Holes(old_memory)) >= 2) =>
        LET before == SelectSeq(old_memory, IsAllocated)
            n      == Len(before)
        IN  /\ Len(memory) = n + 1
            /\ \A k \in 1..n :
                  /\ memory[k].id = before[k].id
                  /\ BlockSize(memory[k]) = BlockSize(before[k])
                  /\ memory[k].start = IF k = 1 THEN 0 ELSE memory[k - 1].end + 1
            /\ IsFree(memory[n + 1])
            /\ memory[n + 1].end = MAX_MEMORY - 1
            /\ BlockSize(memory[n + 1]) = TotalFree(old_memory)

\* A compaction moved two Allocated Ranges that had holes around them.
C11_Witness ==
    /\ op = "compactAllHoles"
    /\ "unused" \notin old_unique_ids
    /\ NoAdjacentFree(old_memory)
    /\ Cardinality(Holes(old_memory)) >= 2
    /\ Cardinality(Owners(old_memory)) >= 2
    /\ IsFree(old_memory[2])
    /\ memory # old_memory

\* C12: a compaction keeps the total allocated size, the total free size,
\* the owners and the size of each owner's Range, and leaves one Free Range,
\* or none when there was no free space.
C12_CompactKeepsSizesAndOwners ==
    op = "compactAllHoles" =>
        /\ TotalAllocated(memory) = TotalAllocated(old_memory)
        /\ TotalFree(memory) = TotalFree(old_memory)
        /\ Owners(memory) = Owners(old_memory)
        /\ unique_ids = old_unique_ids
        /\ \A p \in Owners(old_memory) :
              {BlockSize(b) : b \in {x \in Allocated(memory) : x.id = p}}
                  = {BlockSize(b) : b \in {x \in Allocated(old_memory) : x.id = p}}
        /\ Cardinality(Holes(memory)) = IF Holes(old_memory) = {} THEN 0 ELSE 1

\* A compaction right after a successful release moved a Range.
C12_Witness ==
    /\ op = "compactAllHoles"
    /\ earlier.op = "release"
    /\ "unused" \notin old_unique_ids
    /\ NoAdjacentFree(old_memory)
    /\ Owners(old_memory) # {}
    /\ memory # old_memory

\* C13: a compaction of a Partition with no or one Free Range leaves the
\* Range list and the id set as they were.
C13_CompactOfFewHolesChangesNothing ==
    (op = "compactAllHoles" /\ Cardinality(Holes(old_memory)) <= 1) =>
        /\ memory = old_memory
        /\ unique_ids = old_unique_ids

\* A compaction met a single hole that had an Allocated Range behind it.
C13_Witness ==
    /\ op = "compactAllHoles"
    /\ "unused" \notin old_unique_ids
    /\ Cardinality(Holes(old_memory)) = 1
    /\ ~HolesLast(old_memory)

\* C14: a release right after a successful request of the same process
\* leaves the Range list and the id set as they were before the request.
C14_RequestThenReleaseRestores ==
    (op = "release" /\ result = "ok" /\ earlier.op \in AllocateOps) =>
        /\ memory = earlier.memory
        /\ unique_ids = earlier.unique_ids

\* C16: after a successful request the Partition invariants hold and the
\* process owns exactly one Allocated Range, of the requested size.
C16_RequestMakesOwner ==
    (op \in AllocateOps /\ result = "ok") =>
        /\ memory[1].start = 0
        /\ memory[Len(memory)].end = MAX_MEMORY - 1
        /\ \A i \in 1..(Len(memory) - 1) : memory[i].end + 1 = memory[i + 1].start
        /\ NoAdjacentFree(memory)
        /\ \E i \in 1..Len(memory) :
              /\ memory[i].id = process
              /\ IsAllocated(memory[i])
              /\ BlockSize(memory[i]) = size
              /\ \A j \in 1..Len(memory) : memory[j].id = process => j = i

\* C17 as stated: after every compaction each Free Range is the last Range.
C17_CompactLeavesHolesLast ==
    op = "compactAllHoles" => HolesLast(memory)

\* C17 as amended: after a compaction of a Partition with at least two Free
\* Ranges each Free Range is the last Range.
C17_CompactOfSeveralHolesLeavesHoleLast ==
    (op = "compactAllHoles" /\ Cardinality(Holes(old_memory)) >= 2) =>
        HolesLast(memory)

\* A compaction met two holes with an Allocated Range behind the first.
C17_Witness ==
    /\ op = "compactAllHoles"
    /\ "unused" \notin old_unique_ids
    /\ NoAdjacentFree(old_memory)
    /\ Cardinality(Holes(old_memory)) >= 2
    /\ ~HolesLast(old_memory)
    /\ HolesLast(memory)

\* C18 as stated: a successful release leaves no two adjacent Free Ranges
\* and the total free size as it was.
C18_ReleaseKeepsFreeSize ==
    (op = "release" /\ result = "ok") =>
        /\ NoAdjacentFree(memory)
        /\ TotalFree(memory) = TotalFree(old_memory)

\* C18 as amended: a successful release of a process that owns a Range
\* leaves no two adjacent Free Ranges, and the total free size grows, and
\* the total allocated size shrinks, by the size of that Range.
C18_ReleaseFreesTheRange ==
    (op = "release" /\ result = "ok" /\ process \in Owners(old_memory)) =>
        /\ NoAdjacentFree(memory)
        /\ \A i \in 1..Len(old_memory) :
              old_memory[i].id = process =>
                  /\ TotalFree(memory) = TotalFree(old_memory) + BlockSize(old_memory[i])
                  /\ TotalAllocated(memory) =
                        TotalAllocated(old_memory) - BlockSize(old_memory[i])

\* A release of a Range that had a Free Range on both sides.
C18_Witness ==
    /\ op = "release"
    /\ result = "ok"
    /\ StartedCoalesced
    /\ \E i \in 2..(Len(old_memory) - 1) :
          /\ old_memory[i].id = process
          /\ IsFree(old_memory[i - 1])
          /\ IsFree(old_memory[i + 1])
    /\ Cardinality(Holes(memory)) = Cardinality(Holes(old_memory)) - 1

\* C19: after every call the stored id set is the set of owners of the
\* Allocated Ranges.
C19_IdSetIsOwnerSet ==
    unique_ids = Owners(memory)

\* C15: testing() as written (release P2, release P4, best fit of p9 with
\* size 50) has p9 at [1200:1249] with the hole [1250:1399] behind it after
\* the request of p9, and ends with P1[0:499], hole[500:899], P3[900:1199],
\* hole[1200:1399], P5[1400:1499], hole[1500:9999].
C15_TestingScenario ==
    script = Testing("P2", "P4", 50, "addMemoryBestFit") =>
        /\ step = 8 =>
              memory = << Block(0, 499, "P1"), Block(500, 899, "unused"),
                          Block(900, 1199, "P3"), Block(1200, 1249, "p9"),
                          Block(1250, 1399, "unused"), Block(1400, 1499, "P5"),
                          Block(1500, 9999, "unused") >>
        /\ step = 9 =>
              memory = << Block(0, 499, "P1"), Block(500, 899, "unused"),
                          Block(900, 1199, "P3"), Block(1200, 1399, "unused"),
                          Block(1400, 1499, "P5"), Block(1500, 9999, "unused") >>

\* testing() as written has run to its end without an error in its last call.
C15_Witness ==
    /\ script = Testing("P2", "P4", 50, "addMemoryBestFit")
    /\ step = 9
    /\ op = "release"
    /\ process = "p9"
    /\ result = "ok"

\* The Ranges of mem are sorted, without gap or overlap, and span 0..MAX-1.
Covers(mem) ==
    /\ Len(mem) >= 1
    /\ mem[1].start = 0
    /\ mem[Len(mem)].end = MAX_MEMORY - 1
    /\ \A i \in 1..(Len(mem) - 1) : mem[i].end + 1 = mem[i + 1].start

\* C20: with the methods run statement by statement, the Range list seen
\* right after the chosen hole was removed does not cover the address space,
\* and the Range list seen between two calls covers it and has no two
\* adjacent Free Ranges.
C20_OnlyRunningCallsShowBrokenPartition ==
    /\ pc = "popped" => ~Covers(memory)
    /\ pc = "prompt" => (Covers(memory) /\ NoAdjacentFree(memory))

----------------------------------------------------------------------------
\* Claims about printRoundRobinScheduling

\* The CPU bursts of the schedule file.
Bursts == [k \in 1..Len(file) |-> file[k][3]]

\* The loop has ended with every task counted complete.
Terminated == rr_pc = "return" /\ num_complete = Len(tasks)

\* C21: called with a quantum > 0 on any task list with bursts >= 0 (the
\* empty list and lists with a burst of 0 included), the loop eventually
\* ends with num_complete = len(tasks); called with a quantum <= 0 it
\* raises ValueError and has scheduled nothing.
C21_RoundRobinTerminates ==
    /\ (rr_pc = "call" /\ quantum > 0) ~> Terminated
    /\ (rr_pc = "call" /\ quantum <= 0) ~> (rr_pc = "ValueError")
    /\ [](quantum <= 0 => printed = << >> /\ tasks = << >>)

\* The list the run goes through: references to the scheduler's Tasks.
ListOrder == IF priority THEN tasks_by_priority ELSE tasks_by_fcfs

\* list holds every line of the file once, by descending priority and, among
\* equal priorities, in the order of the lines.
IsPriorityOrder(list) ==
    /\ Len(list) = Len(file)
    /\ \A k \in 1..Len(file) : \E at \in 1..Len(list) : list[at] = k
    /\ \A a, b \in 1..Len(list) :
          a < b => \/ file[list[a]][2] > file[list[b]][2]
                   \/ /\ file[list[a]][2] = file[list[b]][2]
                      /\ list[a] < list[b]

\* The slice of the k-th printed line (k > 1): what the clock advanced by.
Slice(k) == printed[k].clock - printed[k - 1].clock

\* What the task at position at has received in the first k printed lines.
RECURSIVE Received(_, _)
Received(at, k) ==
    IF k <= 1
    THEN 0
    ELSE Received(at, k - 1) + (IF printed[k].task = at THEN Slice(k) ELSE 0)

\* The burst the task at position at still needs after k printed lines.
Remaining(at, k) == file[ListOrder[at]][3] - Received(at, k)

\* The position d places after position at, going round the list.
Round(at, d) == ((at - 1 + d) % Len(file)) + 1

\* The position visited after the k-th printed line: the first one after
\* the position of that line, going round, whose task still needs time.
NextVisited(k) ==
    LET from == IF k = 1 THEN Len(file) ELSE printed[k].task
        d == CHOOSE d \in 1..Len(file) :
                /\ Remaining(Round(from, d), k) > 0
                /\ \A e \in 1..(d - 1) : Remaining(Round(from, e), k) = 0
    IN  Round(from, d)

RECURSIVE SumOf(_)
SumOf(numbers) ==
    IF numbers = << >> THEN 0 ELSE Head(numbers) + SumOf(Tail(numbers))

\* A run the claim is about: started with a quantum > 0 on bursts > 0.
PositiveRun ==
    /\ rr_pc \in {"while", "body", "return"}
    /\ quantum > 0
    /\ \A k \in 1..Len(file) : Bursts[k] > 0

\* C22: with a quantum > 0 and bursts > 0, the run goes round the tasks in
\* list order (the order of the file, or by descending priority and the
\* order of the file among equal priorities), skips the tasks that need no
\* more time, gives the visited task min(quantum, remaining burst); at the
\* end every task has received its burst and the clock is the sum of the
\* bursts; the scheduler's own lists keep their bursts.
C22_RoundRobinVisitsInOrder ==
    PositiveRun =>
        /\ tasks_by_fcfs = [k \in 1..Len(file) |-> k]
        /\ IsPriorityOrder(tasks_by_priority)
        /\ \A k \in 1..Len(file) : heap[k].cpu_burst = file[k][3]
        /\ printed[1].clock = 0
        /\ printed[Len(printed)].clock = clock
        /\ \A k \in 2..Len(printed) :
              /\ printed[k].task = NextVisited(k - 1)
              /\ printed[k].name = file[ListOrder[printed[k].task]][1]
              /\ Slice(k) = Min(quantum, Remaining(printed[k].task, k - 1))
        /\ rr_pc = "return" =>
              /\ \A at \in 1..Len(file) : Received(at, Len(printed)) = Bursts[ListOrder[at]]
              /\ clock = SumOf(Bursts)

\* A finished run by priority whose order differs from the file's, in which
\* a task took several slices, the last one shorter than the quantum, and
\* in which a finished task was skipped.
C22_Witness ==
    /\ PositiveRun
    /\ rr_pc = "return"
    /\ priority
    /\ tasks_by_priority # tasks_by_fcfs
    /\ \E k \in 2..Len(printed) :
          /\ Slice(k) < quantum
          /\ Received(printed[k].task, k - 1) > 0
    /\ \E k \in 2..(Len(printed) - 1) :
          printed[k + 1].task # Round(printed[k].task, 1)

====
